---- MODULE Spec2Model ----
(***************************************************************************)
(* Hybrid retrieval of codetricity/chat-with-history:                      *)
(*   services/hybrid_search_service.py  HybridSearchService                *)
(*   services/embedding_service.py      EmbeddingService (embedding store) *)
(*   routes/marketing.py                POST /search/rebuild-index         *)
(*                                                                         *)
(* Numbers.  TLA+ has no floats.  Embedding vectors are 2-dimensional      *)
(* integer vectors whose length is 5 or 10, so that L2 normalisation is    *)
(* exact in units of 1/5; a cosine score is the inner product of two       *)
(* normalised vectors, in units of 1/25 (25 is the score 1.0).  BM25       *)
(* scores are kept in the same unit.  Weights are in percent.              *)
(***************************************************************************)
EXTENDS Integers, Sequences, FiniteSets, TLC

\* ------------------------------------------------------------------ bounds
MaxChunks == 2
MaxRel == 2
MaxLimit == 2
NumRebuildRequests == 2
MaxEmbeddings == 2
MaxChunksAsync == 3
MaxVectorLen == 3
MaxTextLen == 5
MaxChunkSize == 3
MaxIterations == 8
MaxMessages == 2
MaxChunkIds == 5

\* ---------------------------------------------------- program constants
bm25_weight_default == 35
cosine_weight_default == 65
\* EmbeddingService.embedding_dimension: 1536 in the code, 2 on the scale of
\* this model (vectors are 2-dimensional)
embedding_dimension == 2
\* split_text looks for a sentence end in the last 100 characters of a window
sentence_window == 100
\* ChunkingService(chunk_size=1000, chunk_overlap=200), scaled down
default_chunk_size == 3
default_chunk_overlap == 1

Kinds == {"conversation", "document"}
ChunkIds == 1..MaxChunks
Limits == 1..MaxLimit
\* what the embedding provider may return for a text
Vectors == {<<6, 8>>, <<0, 5>>}
\* caller-chosen (bm25_weight, cosine_weight) pairs, in percent
WeightPairs == {<<bm25_weight_default, cosine_weight_default>>, <<100, 0>>, <<0, 100>>}

\* Python's None for an optional value, and a present value
None == <<>>
Some(x) == <<x>>

\* --------------------------------------------------------------- state
VARIABLES
  chunks,              \* rows of tables chunks / document_chunks: [id, kind, rel]
  embeddings,          \* tables chunk_embeddings / document_chunk_embeddings, in row order
  fts_tables,          \* the FTS5 virtual tables chunks_fts / document_chunks_fts exist
  nextId,              \* ids handed out so far (uuid4 never repeats)
  faiss_index,         \* HybridSearchService.faiss_index: None or Some(vectors)
  chunk_id_to_index,   \* HybridSearchService.chunk_id_to_index
  index_to_chunk_id,   \* HybridSearchService.index_to_chunk_id
  last_build,          \* history: what the latest build call on the instance found
  build,               \* a build_faiss_index() coroutine on the instance
  sem,                 \* a semantic_search() coroutine on the instance
  call,                \* the latest completed search call and what it returned
  rebuilds,            \* the POST /search/rebuild-index requests
  job,                 \* a run of the batch embedding job (generate_embeddings)
  split,               \* a call of ChunkingService.split_text, loop by loop
  sources,             \* tables messages / documents: the texts that get chunked
  chunks_fts,          \* the rows the FTS5 tables index, by kind (ids of chunk rows)
  fts_triggers         \* the triggers that copy chunk changes into the FTS5 tables exist

vars == <<chunks, embeddings, fts_tables, nextId, faiss_index, chunk_id_to_index,
          index_to_chunk_id, last_build, build, sem, call, rebuilds,
          job, split, sources, chunks_fts, fts_triggers>>
\* what the search service never touches
text_vars == <<job, split, sources, chunks_fts, fts_triggers>>
db_vars == <<chunks, embeddings, fts_tables, nextId>>
inst_vars == <<faiss_index, chunk_id_to_index, index_to_chunk_id, last_build>>

\* ------------------------------------------------------------- helpers
Range(s) == {s[i] : i \in DOMAIN s}
Min(a, b) == IF a <= b THEN a ELSE b
MaxOf(S) == CHOOSE x \in S : \A y \in S : y <= x
Prefix(s, n) == SubSeq(s, 1, Min(n, Len(s)))

\* The sequences that list every element of the set S exactly once
Orderings(S) ==
  {f \in [1..Cardinality(S) -> S] : \A x \in S : \E i \in DOMAIN f : f[i] = x}

\* ------------------------------------------------------- id conversions
\* Chunk.id is a uuid.UUID column; on the SQLite database the ORM stores it
\* as 32 hexadecimal digits.  keyword_search reads the raw column with
\* aiosqlite and applies str(): the hex form.
StrOfRowId(id) == <<"hex32", id>>
\* _get_chunk_details loads the ORM object and applies str() to the
\* uuid.UUID: the canonical 8-4-4-4-12 form with dashes.
StrOfUuid(id) == <<"canonical", id>>
\* the chunk a chunk_id string names
ChunkOfStr(s) == s[2]

\* -------------------------------------------------------------- vectors
SqNorm(v) == v[1] * v[1] + v[2] * v[2]
Isqrt(n) == CHOOSE r \in 0..n : r * r <= n /\ (r + 1) * (r + 1) > n
\* faiss.normalize_L2 on one row; a zero vector is left as it is
normalize_L2(v) ==
  LET n == Isqrt(SqNorm(v))
  IN IF n = 0 THEN v ELSE <<(v[1] * 5) \div n, (v[2] * 5) \div n>>
InnerProduct(u, v) == u[1] * v[1] + u[2] * v[2]


\* ------------------------------------------------------------ the tables
\* rows of one table (kind) in rowid order; ids are handed out in increasing
\* order, so rowid order is id order
TableIds(tbl, kind) == {c.id : c \in {r \in tbl : r.kind = kind}}
RowOf(tbl, id) == CHOOSE c \in tbl : c.id = id
TableRows(tbl, kind) ==
  LET ids == TableIds(tbl, kind)
      nth(p) == CHOOSE i \in ids : Cardinality({j \in ids : j < i}) = p - 1
  IN [p \in 1..Cardinality(ids) |-> RowOf(tbl, nth(p))]

\* --------------------------------------------------- the FTS5 entries
NoEntries == [conversation |-> {}, document |-> {}]
\* the entries of an index in step with table tbl
EntriesOf(tbl, fts) ==
  [kind \in {"conversation", "document"} |->
     IF fts THEN {c.id : c \in {x \in tbl : x.kind = kind}} ELSE {}]
\* triggers chunks_ai / document_chunks_ai: AFTER INSERT the new rows are
\* entered in the FTS5 table of their kind, in the inserting transaction
AfterInsert(entries, triggers, rows) ==
  [kind \in DOMAIN entries |->
     IF triggers THEN entries[kind] \cup {c.id : c \in {x \in rows : x.kind = kind}}
     ELSE entries[kind]]
\* triggers chunks_ad / document_chunks_ad: AFTER DELETE the entries of the
\* deleted rows are removed
AfterDelete(entries, triggers, rows) ==
  [kind \in DOMAIN entries |->
     IF triggers THEN entries[kind] \ {c.id : c \in {x \in rows : x.kind = kind}}
     ELSE entries[kind]]
\* FROM chunks_fts JOIN chunks c ON chunks_fts.rowid = c.rowid: the stored
\* rows that have an entry
IndexedChunks == {c \in chunks : c.id \in chunks_fts[c.kind]}

\* ------------------------------------------------- embedding records
\* A float32 value is modelled by its 32-bit word, read as a signed integer
\* (sign bit set: negative); the vectors of the search model use small words.  np.array(embedding, dtype=np.float32).tobytes():
\* four bytes per element, least significant byte first.
ByteOf_BigEndian(word, k) == (word \div (256 ^ (3 - k))) % 256
ByteOf(word, k) == (word \div (256 ^ k)) % 256

float32_to_bytes(embedding) ==
  [b \in 1..(4 * Len(embedding)) |-> ByteOf(embedding[((b - 1) \div 4) + 1], (b - 1) % 4)]

\* np.frombuffer(embedding_bytes, dtype=np.float32).tolist(): one element per
\* four bytes (stored blobs are written by float32_to_bytes, whole elements)
bytes_to_float32(embedding_bytes) ==
  [i \in 1..(Len(embedding_bytes) \div 4) |->
     (embedding_bytes[4 * i - 3] + 256 * embedding_bytes[4 * i - 2]
        + 65536 * embedding_bytes[4 * i - 1])
       + 16777216 * (IF embedding_bytes[4 * i] >= 128 THEN embedding_bytes[4 * i] - 256
                     ELSE embedding_bytes[4 * i])]

\* the ChunkEmbedding / DocumentChunkEmbedding row that store_chunk_embedding
\* and store_document_chunk_embedding write (lines 90-95, 117-122): the
\* declared dimension is the service's, whatever the vector
EmbeddingRow(chunk_id, embedding) ==
  [chunk_id |-> chunk_id,
   embedding |-> float32_to_bytes(embedding),
   embedding_dimension |-> embedding_dimension]

\* EmbeddingService.get_all_chunk_embeddings / get_all_document_chunk_embeddings:
\* the (chunk_id, embedding) pairs of one table, in row order, decoded
get_all_embeddings(emb, kind) ==
  [i \in DOMAIN emb[kind] |->
     [chunk_id |-> emb[kind][i].chunk_id, vec |-> bytes_to_float32(emb[kind][i].embedding)]]

\* ------------------------------------------------- build_faiss_index
\* lines 39-48: a new IndexFlatIP holding the normalised embeddings in order
\* (variant that adds to the index already there instead of replacing it)
BuiltIndex_Appending(all_embeddings) ==
  Some((IF faiss_index = None THEN <<>> ELSE faiss_index[1])
       \o [i \in 1..Len(all_embeddings) |-> normalize_L2(all_embeddings[i].vec)])
BuiltIndex(all_embeddings) ==
  Some([i \in 1..Len(all_embeddings) |-> normalize_L2(all_embeddings[i].vec)])

\* line 51: {chunk_id: i for i, (chunk_id, _) in enumerate(all_embeddings)};
\* a chunk_id that occurs twice keeps its last position
BuiltChunkIdToIndex(all_embeddings) ==
  [c \in {all_embeddings[i].chunk_id : i \in DOMAIN all_embeddings} |->
     MaxOf({i - 1 : i \in {j \in DOMAIN all_embeddings : all_embeddings[j].chunk_id = c}})]

\* line 52: {i: chunk_id for i, (chunk_id, _) in enumerate(all_embeddings)}
BuiltIndexToChunkId(all_embeddings) ==
  [i \in 0..(Len(all_embeddings) - 1) |-> all_embeddings[i + 1].chunk_id]

\* __init__ (lines 19-24): no index, empty maps
FreshInstance ==
  [faiss_index |-> None, chunk_id_to_index |-> <<>>, index_to_chunk_id |-> <<>>]

\* lines 32-54 on the embeddings a build has read: the fields of instance
\* `inst` after it.  With no embeddings the build returns early and touches
\* nothing.
BuildOn(inst, all_embeddings) ==
  IF all_embeddings = <<>>
    THEN inst
    ELSE [faiss_index |-> BuiltIndex(all_embeddings),
          chunk_id_to_index |-> BuiltChunkIdToIndex(all_embeddings),
          index_to_chunk_id |-> BuiltIndexToChunkId(all_embeddings)]

\* the same on the instance the state variables hold
InstanceAfterBuild(all_embeddings) ==
  BuildOn([faiss_index |-> faiss_index,
           chunk_id_to_index |-> chunk_id_to_index,
           index_to_chunk_id |-> index_to_chunk_id], all_embeddings)

\* ---------------------------------------------------- faiss_index.search
\* IndexFlatIP.search(query_vector, k): the k best positions by inner
\* product, best first (equal scores: lower position first), padded with
\* index -1 when the index holds fewer than k vectors.
FaissSearch(vectors, query_vector, k) ==
  LET n == Len(vectors)
      all == [i \in 1..n |-> [score |-> InnerProduct(vectors[i], query_vector),
                              index |-> i - 1]]
      before(i, j) == all[i].score > all[j].score
                      \/ (all[i].score = all[j].score /\ i < j)
      rank(i) == Cardinality({j \in 1..n : before(j, i)}) + 1
  IN [p \in 1..k |->
        IF p <= n THEN all[CHOOSE i \in 1..n : rank(i) = p]
                  ELSE [score |-> -1000000, index |-> -1]]

\* ------------------------------------------------- _get_chunk_details
\* the chunk of the searched kind with this id, or None
\* (variant that answers without looking the chunk up)
GetChunkDetails_NoLookup(tbl, chunk_id, search_type) ==
  Some([chunk_id |-> StrOfUuid(chunk_id)])
_get_chunk_details(tbl, chunk_id, search_type) ==
  IF chunk_id \in TableIds(tbl, search_type)
    THEN Some([chunk_id |-> StrOfUuid(chunk_id)])
    ELSE None

\* ------------------------------------------- semantic_search, the loop
\* lines 203-209 from hit i on, without awaiting: the next hit whose
\* chunk details are to be fetched, or 0 when the loop is over.
\* index -1 ends the loop; a position unknown to the map is skipped.
RECURSIVE NextLookup(_, _, _)
NextLookup(hits, i2c, i) ==
  IF i > Len(hits) THEN 0
  ELSE IF hits[i].index = -1 THEN 0
  ELSE IF hits[i].index \notin DOMAIN i2c THEN NextLookup(hits, i2c, i + 1)
  ELSE i

\* lines 212-218 for hit i: the results with the row of hit i appended when
\* its chunk is found
WithHit(results, hit, chunk_id, tbl, search_type) ==
  LET chunk_details == _get_chunk_details(tbl, chunk_id, search_type)
  IN IF chunk_details = None THEN results
     ELSE Append(results, [chunk_id |-> chunk_details[1].chunk_id,
                           cosine_score |-> hit.score,
                           pos |-> hit.index])

\* the whole loop against one unchanging map and table
RECURSIVE SemanticLoop(_, _, _, _, _, _)
SemanticLoop(hits, i2c, tbl, search_type, i, results) ==
  LET j == NextLookup(hits, i2c, i)
  IN IF j = 0 THEN results
     ELSE SemanticLoop(hits, i2c, tbl, search_type, j + 1,
                       WithHit(results, hits[j], i2c[hits[j].index], tbl, search_type))

\* --------------------------------------------------------- keyword_search
\* bm25(): the FTS5 rank of a matching row.  FTS5 returns a cost: the better
\* the match, the smaller (more negative) the number.
bm25(rel) == -(25 * rel)

\* lines 89-158 and 159-167: the rows matching the query, ORDER BY
\* bm25_score DESC LIMIT limit (equal scores: rowid order); [] when the FTS
\* table is missing (the exception is caught).
OrderByBm25(rows) ==
  LET n == Len(rows)
      before(i, j) == rows[i].bm25_score > rows[j].bm25_score
                      \/ (rows[i].bm25_score = rows[j].bm25_score /\ i < j)
      rank(i) == Cardinality({j \in 1..n : before(j, i)}) + 1
  IN [p \in 1..n |-> rows[CHOOSE i \in 1..n : rank(i) = p]]

MatchingRows(tbl, search_type) ==
  LET rows == TableRows(tbl, search_type)
  IN SelectSeq(rows, LAMBDA c : c.rel > 0)

\* the query of lines 89-131 fails with "no such table" when the FTS5 tables
\* are missing
QueryError(fts, search_type) ==
  IF fts THEN None
  ELSE Some(IF search_type = "conversation" THEN "no such table: chunks_fts"
            ELSE "no such table: document_chunks_fts")
\* except Exception (lines 159-165): both branches log and return [], nothing
\* is raised to the caller
\* (variant that lets the error through)
keyword_search_raises_Unhandled(error) == error # None
keyword_search_raises(error) == FALSE

keyword_search(tbl, fts, limit, search_type) ==
  IF ~fts THEN <<>>
  ELSE LET matched == MatchingRows(tbl, search_type)
           rows == [i \in 1..Len(matched) |->
                      [chunk_id |-> StrOfRowId(matched[i].id),
                       bm25_score |-> bm25(matched[i].rel)]]
       IN Prefix(OrderByBm25(rows), limit)

\* ---------------------------------------------------------- hybrid_search
\* a {chunk_id: score} dictionary built from a result list: the last row of
\* a chunk_id wins; .get(chunk_id, 0.0)
ScoreOf(results, chunk_id, field) ==
  LET at == {i \in DOMAIN results : results[i].chunk_id = chunk_id}
  IN IF at = {} THEN 0 ELSE results[MaxOf(at)][field]

ResultIds(results) == {results[i].chunk_id : i \in DOMAIN results}

\* line 271
HybridScore(bm25_weight, bm25_score, cosine_weight, cosine_score) ==
  (bm25_weight * bm25_score) + (cosine_weight * cosine_score)

\* lines 288-289: sort by hybrid_score, reverse=True (stable), first `limit`
\* (variant that sorts but does not cut)
TopByHybridScore_NoCut(rows, limit) ==
  LET n == Len(rows)
      before(i, j) == rows[i].hybrid_score > rows[j].hybrid_score
                      \/ (rows[i].hybrid_score = rows[j].hybrid_score /\ i < j)
      rank(i) == Cardinality({j \in 1..n : before(j, i)}) + 1
  IN [p \in 1..n |-> rows[CHOOSE i \in 1..n : rank(i) = p]]
TopByHybridScore(rows, limit) ==
  LET n == Len(rows)
      before(i, j) == rows[i].hybrid_score > rows[j].hybrid_score
                      \/ (rows[i].hybrid_score = rows[j].hybrid_score /\ i < j)
      rank(i) == Cardinality({j \in 1..n : before(j, i)}) + 1
  IN Prefix([p \in 1..n |-> rows[CHOOSE i \in 1..n : rank(i) = p]], limit)

\* lines 256-289.  `order` is the order in which the set all_chunk_ids is
\* iterated (line 265): any order, it depends on the string hashes.
Fuse(bm25_results, semantic_results, limit, bm25_weight, cosine_weight, order) ==
  LET row(chunk_id) ==
        LET bm25_score == ScoreOf(bm25_results, chunk_id, "bm25_score")
            cosine_score == ScoreOf(semantic_results, chunk_id, "cosine_score")
        IN [chunk_id |-> chunk_id,
            hybrid_score |-> HybridScore(bm25_weight, bm25_score,
                                         cosine_weight, cosine_score),
            bm25_score |-> bm25_score,
            cosine_score |-> cosine_score]
      hybrid_results == [k \in DOMAIN order |-> row(order[k])]
  IN TopByHybridScore(hybrid_results, limit)


\* ============================================================ coroutines
IdleBuild == [pc |-> "idle"]
IdleSem == [pc |-> "idle"]
NoCall == [op |-> "none"]
IdleRequest == [pc |-> "idle"]
IdleJob == [pc |-> "idle"]
IdleSplit == [pc |-> "idle"]
NoSources == [messages |-> <<>>, documents |-> <<>>]

\* the all_embeddings a build started now would read (lines 29-32)
StoredEmbeddings ==
  get_all_embeddings(embeddings, "conversation") \o get_all_embeddings(embeddings, "document")

\* history of build calls: whether the latest one read any embedding
Found(all_embeddings) == IF all_embeddings = <<>> THEN "zero" ELSE "some"

\* ------------------------------------------- semantic_search in one piece
\* lines 186-224 run without interleaving: `provided` is what
\* generate_embedding returns, None when it raises.
SemanticSearchOn(inst0, limit, search_type, provided) ==
  LET lazy == inst0.faiss_index = None
      inst == IF lazy THEN BuildOn(inst0, StoredEmbeddings) ELSE inst0
      searched == inst.faiss_index # None /\ provided # None
      hits == IF searched
                THEN FaissSearch(inst.faiss_index[1], normalize_L2(provided[1]), limit)
                ELSE <<>>
  IN [inst |-> inst, lazy |-> lazy, hits |-> hits,
      results |-> SemanticLoop(hits, inst.index_to_chunk_id, chunks, search_type, 1, <<>>)]

\* ... on the instance the state variables hold
SemanticSearchRun(limit, search_type, provided) ==
  SemanticSearchOn([faiss_index |-> faiss_index,
                    chunk_id_to_index |-> chunk_id_to_index,
                    index_to_chunk_id |-> index_to_chunk_id],
                   limit, search_type, provided)

LastBuildAfter(run) == IF run.lazy THEN Found(StoredEmbeddings) ELSE last_build

InstallRun(run) ==
  /\ faiss_index' = run.inst.faiss_index
  /\ chunk_id_to_index' = run.inst.chunk_id_to_index
  /\ index_to_chunk_id' = run.inst.index_to_chunk_id
  /\ last_build' = LastBuildAfter(run)

\* ------------------------------------------------------ search requests
\* Each request handler creates its own HybridSearchService and makes one
\* call on it (routes/marketing.py 788-790, 822-824, 851-853).
\* The handler answers 200 with the list the service returned, and 500 when
\* the service call raised (marketing.py 786-810); keyword_search,
\* semantic_search and hybrid_search catch every exception and return a list,
\* so the handlers below always pass raised = FALSE.
ResponseStatus(raised) == IF raised THEN 500 ELSE 200

Providers == {Some(v) : v \in Vectors} \cup {None}

KeywordSearchCall ==
  /\ call = NoCall
  /\ \E limit \in Limits, search_type \in Kinds :
    /\ call' = [op |-> "keyword_search", limit |-> limit, search_type |-> search_type,
                raised |-> keyword_search_raises(QueryError(fts_tables, search_type)),
                status |-> ResponseStatus(keyword_search_raises(QueryError(fts_tables,
                                                                            search_type))),
                results |-> keyword_search(IndexedChunks, fts_tables, limit, search_type)]
    /\ UNCHANGED <<text_vars, db_vars, inst_vars, build, sem, rebuilds>>

SemanticSearchCall ==
  /\ call = NoCall
  /\ \E limit \in Limits, search_type \in Kinds, provided \in Providers :
    LET run == SemanticSearchRun(limit, search_type, provided)
    IN /\ call' = [op |-> "semantic_search", limit |-> limit,
                   search_type |-> search_type, provided |-> provided,
                   status |-> ResponseStatus(FALSE),
                   index_available |-> run.inst.faiss_index # None,
                   results |-> run.results]
       /\ InstallRun(run)
       /\ UNCHANGED <<text_vars, db_vars, build, sem, rebuilds>>

HybridSearchCall ==
  /\ call = NoCall
  /\ \E limit \in Limits, search_type \in Kinds, w \in WeightPairs, provided \in Providers :
    LET bm25_results == keyword_search(IndexedChunks, fts_tables, limit * 2, search_type)
        run == SemanticSearchRun(limit * 2, search_type, provided)
        semantic_results == run.results
        all_chunk_ids == ResultIds(bm25_results) \cup ResultIds(semantic_results)
    IN \E order \in Orderings(all_chunk_ids) :
         /\ call' = [op |-> "hybrid_search", limit |-> limit,
                     search_type |-> search_type,
                     bm25_weight |-> w[1], cosine_weight |-> w[2],
                     provided |-> provided,
                     status |-> ResponseStatus(FALSE),
                     index_available |-> run.inst.faiss_index # None,
                     bm25_results |-> bm25_results,
                     semantic_results |-> semantic_results,
                     results |-> Fuse(bm25_results, semantic_results, limit,
                                      w[1], w[2], order)]
         /\ InstallRun(run)
         /\ UNCHANGED <<text_vars, db_vars, build, sem, rebuilds>>

\* ------------------------------------------------- the databases searched
ChunkTables ==
  UNION {{{[id |-> i, kind |-> k[i], rel |-> r[i]] : i \in 1..n} :
            k \in [1..n -> Kinds], r \in [1..n -> 0..MaxRel]} : n \in 0..MaxChunks}

\* every chunk has no embedding or one, stored in its kind's table in id order
EmbeddingTables(tbl) ==
  LET ids == {c.id : c \in tbl}
      tableOf(e, kind) ==
        LET rows == SelectSeq(TableRows(tbl, kind), LAMBDA c : e[c.id] # None)
        IN [i \in 1..Len(rows) |-> EmbeddingRow(rows[i].id, e[rows[i].id][1])]
  IN {[conversation |-> tableOf(e, "conversation"), document |-> tableOf(e, "document")] :
        e \in [ids -> Providers]}

NeverBuilt ==
  /\ faiss_index = None
  /\ chunk_id_to_index = <<>>
  /\ index_to_chunk_id = <<>>
  /\ last_build = "never"

InitHybrid ==
  /\ chunks \in ChunkTables
  /\ embeddings \in EmbeddingTables(chunks)
  /\ fts_tables \in BOOLEAN
  /\ nextId = Cardinality(chunks) + 1
  /\ NeverBuilt
  /\ build = IdleBuild
  /\ sem = IdleSem
  /\ call = NoCall
  /\ rebuilds = [r \in 1..NumRebuildRequests |-> IdleRequest]
  /\ job = IdleJob
  /\ split = IdleSplit
  /\ sources = NoSources
  /\ chunks_fts = EntriesOf(chunks, fts_tables)
  /\ fts_triggers = fts_tables

NextHybrid ==
  \/ KeywordSearchCall
  \/ SemanticSearchCall
  \/ HybridSearchCall

SpecHybrid == InitHybrid /\ [][NextHybrid]_vars


\* ===================================== one instance, calls one after another
\* chunk_conversation / chunk_document store a chunk of a source under a new id
ChunkSource(rels, max_chunks) ==
  /\ nextId <= max_chunks
  /\ \E kind \in Kinds, rel \in rels :
       LET row == [id |-> nextId, kind |-> kind, rel |-> rel]
       IN /\ chunks' = chunks \cup {row}
          /\ chunks_fts' = AfterInsert(chunks_fts, fts_triggers, {row})
  /\ nextId' = nextId + 1
  /\ call' = NoCall
  /\ UNCHANGED <<job, split, sources, fts_triggers, embeddings, fts_tables, inst_vars,
                 build, sem, rebuilds>>

\* store_chunk_embedding / store_document_chunk_embedding for a stored chunk:
\* one more row, whether or not the chunk already has one
StoreEmbeddingOf(vecs) ==
  /\ \E c \in chunks, vec \in vecs :
       /\ Len(embeddings.conversation) + Len(embeddings.document) < MaxEmbeddings
       /\ embeddings' = [embeddings EXCEPT ![c.kind] = Append(@, EmbeddingRow(c.id, vec))]
  /\ call' = NoCall
  /\ UNCHANGED <<text_vars, chunks, fts_tables, nextId, inst_vars, build, sem, rebuilds>>

StoreEmbedding == StoreEmbeddingOf(Vectors)

\* reset_database: drop_all and create_all, every table of the metadata is
\* empty again.  The FTS5 virtual tables are not in the metadata and keep
\* their entries; the triggers go with the tables they were created on.
ResetDatabase ==
  /\ chunks # {}
  /\ chunks' = {}
  /\ embeddings' = [conversation |-> <<>>, document |-> <<>>]
  /\ fts_triggers' = FALSE
  /\ sources' = NoSources
  /\ call' = NoCall
  /\ UNCHANGED <<job, split, chunks_fts, fts_tables, nextId, inst_vars,
                 build, sem, rebuilds>>

\* build_faiss_index() from call to return
BuildFaissIndex ==
  LET inst == InstanceAfterBuild(StoredEmbeddings)
  IN /\ faiss_index' = inst.faiss_index
     /\ chunk_id_to_index' = inst.chunk_id_to_index
     /\ index_to_chunk_id' = inst.index_to_chunk_id
     /\ last_build' = Found(StoredEmbeddings)
     /\ call' = [op |-> "build_faiss_index", all_embeddings |-> StoredEmbeddings,
                 again |-> /\ call.op = "build_faiss_index"
                           /\ call.all_embeddings = StoredEmbeddings]
     /\ UNCHANGED <<text_vars, db_vars, build, sem, rebuilds>>

\* semantic_search() from call to return, on the instance as it is
SemanticSearch ==
  \E limit \in Limits, search_type \in Kinds, provided \in Providers :
    LET run == SemanticSearchRun(limit, search_type, provided)
    IN /\ call' = [op |-> "semantic_search", limit |-> limit,
                   search_type |-> search_type, provided |-> provided,
                   last_build |-> LastBuildAfter(run),
                   hits |-> run.hits, results |-> run.results]
       /\ InstallRun(run)
       /\ UNCHANGED <<text_vars, db_vars, build, sem, rebuilds>>

Init ==
  /\ chunks = {}
  /\ embeddings = [conversation |-> <<>>, document |-> <<>>]
  /\ fts_tables = TRUE
  /\ nextId = 1
  /\ NeverBuilt
  /\ build = IdleBuild
  /\ sem = IdleSem
  /\ call = NoCall
  /\ rebuilds = [r \in 1..NumRebuildRequests |-> IdleRequest]
  /\ job = IdleJob
  /\ split = IdleSplit
  /\ sources = NoSources
  /\ chunks_fts = EntriesOf(chunks, fts_tables)
  /\ fts_triggers = fts_tables

Next ==
  \/ ChunkSource({1}, MaxChunks)
  \/ StoreEmbedding
  \/ ResetDatabase
  \/ BuildFaissIndex
  \/ SemanticSearch

Spec == Init /\ [][Next]_vars


\* ============================== one instance, coroutines that interleave
\* One step is what a coroutine runs between two awaits; the database read
\* of an await is the step that ends it.

\* generate_embeddings (setup_hybrid_search.py): an embedding is stored for a
\* chunk that has none
GenerateEmbeddings(vecs) ==
  /\ \E c \in chunks, vec \in vecs :
       /\ \A i \in DOMAIN embeddings[c.kind] : embeddings[c.kind][i].chunk_id # c.id
       /\ embeddings' = [embeddings EXCEPT
                           ![c.kind] = Append(@, EmbeddingRow(c.id, vec))]
  /\ call' = NoCall
  /\ UNCHANGED <<text_vars, chunks, fts_tables, nextId, inst_vars, build, sem, rebuilds>>

Install(inst, all_embeddings) ==
  /\ faiss_index' = inst.faiss_index
  /\ chunk_id_to_index' = inst.chunk_id_to_index
  /\ index_to_chunk_id' = inst.index_to_chunk_id
  /\ last_build' = Found(all_embeddings)

\* build_faiss_index is called; line 29 reads the conversation embeddings
BuildReadChunks ==
  /\ build.pc = "idle"
  /\ build' = [pc |-> "read_docs",
               chunk_embeddings |-> get_all_embeddings(embeddings, "conversation")]
  /\ UNCHANGED <<text_vars, db_vars, inst_vars, sem, call, rebuilds>>

\* line 30 reads the document embeddings, line 32 concatenates
BuildReadDocs ==
  /\ build.pc = "read_docs"
  /\ build' = [pc |-> "install",
               all_embeddings |-> build.chunk_embeddings
                                    \o get_all_embeddings(embeddings, "document")]
  /\ UNCHANGED <<text_vars, db_vars, inst_vars, sem, call, rebuilds>>

\* lines 34-54, no await: early return, or the index and both maps replaced
BuildInstall ==
  /\ build.pc = "install"
  /\ Install(InstanceAfterBuild(build.all_embeddings), build.all_embeddings)
  /\ build' = IdleBuild
  /\ UNCHANGED <<text_vars, db_vars, sem, call, rebuilds>>

\* semantic_search is called (lines 186-195): with no index it enters
\* build_faiss_index, otherwise it goes on to await generate_embedding
SemCall ==
  /\ sem.pc \in {"idle", "done"}
  /\ \E limit \in Limits, search_type \in Kinds, provided \in Providers :
       LET args == [limit |-> limit, search_type |-> search_type, provided |-> provided]
       IN sem' = IF faiss_index = None
                   THEN [pc |-> "build_read_chunks", args |-> args]
                   ELSE [pc |-> "embed", args |-> args]
  /\ UNCHANGED <<text_vars, db_vars, inst_vars, build, call, rebuilds>>

\* the build inside semantic_search (line 188), lines 29, 30-32 and 34-54
SemBuildReadChunks ==
  /\ sem.pc = "build_read_chunks"
  /\ sem' = [pc |-> "build_read_docs", args |-> sem.args,
             chunk_embeddings |-> get_all_embeddings(embeddings, "conversation")]
  /\ UNCHANGED <<text_vars, db_vars, inst_vars, build, call, rebuilds>>

SemBuildReadDocs ==
  /\ sem.pc = "build_read_docs"
  /\ sem' = [pc |-> "build_install", args |-> sem.args,
             all_embeddings |-> sem.chunk_embeddings
                                  \o get_all_embeddings(embeddings, "document")]
  /\ UNCHANGED <<text_vars, db_vars, inst_vars, build, call, rebuilds>>

\* ... and back in semantic_search, lines 190-195: still no index, return []
SemBuildInstall ==
  /\ sem.pc = "build_install"
  /\ LET inst == InstanceAfterBuild(sem.all_embeddings)
     IN /\ Install(inst, sem.all_embeddings)
        /\ sem' = IF inst.faiss_index = None
                    THEN [pc |-> "done", args |-> sem.args, results |-> <<>>,
                          index_to_chunk_id_at_search |-> <<>>]
                    ELSE [pc |-> "embed", args |-> sem.args]
  /\ UNCHANGED <<text_vars, db_vars, build, call, rebuilds>>

\* the loop from hit i on, up to the next await or the return (lines 203-220)
SemLoopFrom(i, hits, results, at_search) ==
  LET j == NextLookup(hits, index_to_chunk_id, i)
  IN IF j = 0
       THEN [pc |-> "done", args |-> sem.args, results |-> results,
             index_to_chunk_id_at_search |-> at_search]
       ELSE [pc |-> "details", args |-> sem.args, hits |-> hits, i |-> j,
             chunk_id |-> index_to_chunk_id[hits[j].index],
             results |-> results, index_to_chunk_id_at_search |-> at_search]

\* generate_embedding has returned (line 195): lines 196-212, the search on
\* the index as it is now and the loop up to the first _get_chunk_details;
\* [] when generate_embedding raised (lines 221-224)
SemEmbed ==
  /\ sem.pc = "embed"
  /\ sem' = IF sem.args.provided = None
              THEN [pc |-> "done", args |-> sem.args, results |-> <<>>,
                    index_to_chunk_id_at_search |-> index_to_chunk_id]
              ELSE SemLoopFrom(1, FaissSearch(faiss_index[1],
                                              normalize_L2(sem.args.provided[1]),
                                              sem.args.limit),
                               <<>>, index_to_chunk_id)
  /\ UNCHANGED <<text_vars, db_vars, inst_vars, build, call, rebuilds>>

\* _get_chunk_details has returned (line 212): lines 213-218 and the loop up
\* to the next _get_chunk_details, reading self.index_to_chunk_id as it is now
SemDetails ==
  /\ sem.pc = "details"
  /\ sem' = SemLoopFrom(sem.i + 1, sem.hits,
                        WithHit(sem.results, sem.hits[sem.i], sem.chunk_id,
                                chunks, sem.args.search_type),
                        sem.index_to_chunk_id_at_search)
  /\ UNCHANGED <<text_vars, db_vars, inst_vars, build, call, rebuilds>>

AsyncVectors == {<<0, 5>>}

NextAsync ==
  \/ ChunkSource({1}, MaxChunksAsync)
  \/ GenerateEmbeddings(AsyncVectors)
  \/ BuildReadChunks
  \/ BuildReadDocs
  \/ BuildInstall
  \/ SemCall
  \/ SemBuildReadChunks
  \/ SemBuildReadDocs
  \/ SemBuildInstall
  \/ SemEmbed
  \/ SemDetails

SpecAsync == Init /\ [][NextAsync]_vars


\* ================================= POST /search/rebuild-index requests
\* rebuild_search_index (routes/marketing.py 914-929): the handler creates a
\* HybridSearchService of its own, awaits build_faiss_index() on it and
\* answers 200; an exception is answered 500.  `during` records whether
\* another request was between its call and its response when this one came.
InFlight(r) == rebuilds[r].pc \notin {"idle", "done"}

RebuildRequest(r) ==
  /\ rebuilds[r].pc = "idle"
  /\ rebuilds' = [rebuilds EXCEPT ![r] =
       [pc |-> "read_docs",
        during |-> \E o \in DOMAIN rebuilds : o # r /\ InFlight(o),
        inst |-> FreshInstance,
        chunk_embeddings |-> get_all_embeddings(embeddings, "conversation")]]
  /\ UNCHANGED <<text_vars, db_vars, inst_vars, build, sem, call>>

RebuildReadDocs(r) ==
  /\ rebuilds[r].pc = "read_docs"
  /\ rebuilds' = [rebuilds EXCEPT ![r] =
       [pc |-> "install", during |-> @.during, inst |-> @.inst,
        all_embeddings |-> @.chunk_embeddings
                             \o get_all_embeddings(embeddings, "document")]]
  /\ UNCHANGED <<text_vars, db_vars, inst_vars, build, sem, call>>

RebuildRespond(r) ==
  /\ rebuilds[r].pc = "install"
  /\ rebuilds' = [rebuilds EXCEPT ![r] =
       [pc |-> "done", during |-> @.during,
        inst |-> BuildOn(@.inst, @.all_embeddings),
        order |-> Cardinality({o \in DOMAIN rebuilds : rebuilds[o].pc = "done"}) + 1,
        status |-> ResponseStatus(FALSE)]]
  /\ UNCHANGED <<text_vars, db_vars, inst_vars, build, sem, call>>

\* the index the latest answered rebuild request produced, if there is one
Rebuilt ==
  LET done == {r \in DOMAIN rebuilds : rebuilds[r].pc = "done"}
  IN IF done = {} THEN None
     ELSE LET last == CHOOSE r \in done : \A o \in done : rebuilds[o].order <= rebuilds[r].order
          IN Some(rebuilds[last].inst.faiss_index)

\* GET /search/semantic (routes/marketing.py 842-868) in a process that has
\* answered rebuild requests: the handler creates a HybridSearchService of
\* its own and calls semantic_search on it; the instance is dropped with the
\* response.  `index` is the index the query searched.
SemanticSearchRequest ==
  /\ call = NoCall
  /\ \E limit \in Limits, search_type \in Kinds, provided \in Providers :
       LET run == SemanticSearchOn(FreshInstance, limit, search_type, provided)
       IN call' = [op |-> "semantic_search_request", limit |-> limit,
                   search_type |-> search_type, provided |-> provided,
                   status |-> ResponseStatus(FALSE),
                   rebuilt |-> Rebuilt,
                   index |-> run.inst.faiss_index,
                   results |-> run.results]
  /\ UNCHANGED <<text_vars, db_vars, inst_vars, build, sem, rebuilds>>

NextRebuild ==
  \/ ChunkSource({1}, MaxChunks)
  \/ SemanticSearchRequest
  \/ GenerateEmbeddings(Vectors)
  \/ \E r \in 1..NumRebuildRequests : RebuildRequest(r)
  \/ \E r \in 1..NumRebuildRequests : RebuildReadDocs(r)
  \/ \E r \in 1..NumRebuildRequests : RebuildRespond(r)

SpecRebuild == Init /\ [][NextRebuild]_vars



\* ===================================== the embedding store and its batch job
\* what a caller may hand to store_chunk_embedding: a vector of the service's
\* dimension, a shorter one, a longer one
AnyEmbeddings == {<<5>>, <<0, 5>>, <<0, 5, 0>>}
\* what generate_embedding returns to the job
JobVectors == {<<0, 5>>}
\* how an item of the batch goes: the embedding call and the store succeed,
\* generate_embedding raises, store_chunk_embedding raises
Fates == {"ok", "embedding_fails", "store_fails"}

\* the chunks of one table that have no embedding row, in table order
\* (setup_hybrid_search.py 170-177, 202-209)
WithoutEmbedding(kind) ==
  SelectSeq(TableRows(chunks, kind),
            LAMBDA c : \A i \in DOMAIN embeddings[kind] : embeddings[kind][i].chunk_id # c.id)

\* the selected chunks, each with the way its item will go
Batches(kind) ==
  LET rows == WithoutEmbedding(kind)
  IN {[i \in DOMAIN rows |-> [chunk_id |-> rows[i].id, kind |-> kind, fate |-> f[i]]] :
        f \in [DOMAIN rows -> Fates]}

\* generate_embeddings is called: the conversation chunks without embedding
\* are selected (lines 158-178)
JobSelectChunks ==
  /\ job.pc \in {"idle", "done"}
  /\ \E batch \in Batches("conversation") :
       job' = [pc |-> "chunks", batch |-> batch, i |-> 1, selected |-> batch, raised |-> FALSE]
  /\ UNCHANGED <<db_vars, inst_vars, build, sem, call, rebuilds, split, sources,
               chunks_fts, fts_triggers>>

\* the except clause of an item (lines 190-191, 222-223): the error is logged
\* and the loop goes on with the next item
\* (variant in which the error ends the job)
AfterItem_Abort(j, fate) ==
  IF fate = "ok" THEN [j EXCEPT !.i = @ + 1]
  ELSE [j EXCEPT !.pc = "done", !.raised = TRUE]
AfterItem(j, fate) == [j EXCEPT !.i = @ + 1]

\* one item of either loop (lines 180-191, 212-223)
JobItem ==
  /\ job.pc \in {"chunks", "docs"}
  /\ job.i <= Len(job.batch)
  /\ LET item == job.batch[job.i]
     IN /\ \E vec \in JobVectors :
             embeddings' = IF item.fate = "ok"
                             THEN [embeddings EXCEPT
                                     ![item.kind] = Append(@, EmbeddingRow(item.chunk_id, vec))]
                             ELSE embeddings
        /\ job' = AfterItem(job, item.fate)
  /\ UNCHANGED <<chunks, fts_tables, nextId, inst_vars, build, sem, call, rebuilds,
                 split, sources, chunks_fts, fts_triggers>>

\* the first loop is over: the document chunks without embedding are selected
\* (lines 196-210)
JobSelectDocs ==
  /\ job.pc = "chunks"
  /\ job.i > Len(job.batch)
  /\ \E batch \in Batches("document") :
       job' = [job EXCEPT !.pc = "docs", !.batch = batch, !.i = 1,
                          !.selected = @ \o batch]
  /\ UNCHANGED <<db_vars, inst_vars, build, sem, call, rebuilds, split, sources,
               chunks_fts, fts_triggers>>

\* the second loop is over: generate_embeddings returns (line 226)
JobReturn ==
  /\ job.pc = "docs"
  /\ job.i > Len(job.batch)
  /\ job' = [job EXCEPT !.pc = "done"]
  /\ UNCHANGED <<db_vars, inst_vars, build, sem, call, rebuilds, split, sources,
               chunks_fts, fts_triggers>>

NextStore ==
  \/ ChunkSource({1}, MaxChunks)
  \/ StoreEmbeddingOf(AnyEmbeddings)
  \/ JobSelectChunks
  \/ JobItem
  \/ JobSelectDocs
  \/ JobReturn

SpecStore == Init /\ [][NextStore]_vars



\* ================================================ embedding serialization
\* float32 values by their bit patterns: 0.0, the smallest denormal, 1.0
\* (3F800000), a NaN (7FC00000), -0.0 (80000000) and -1.0 (BF800000)
Float32Words == {0, 1, 1065353216, 2143289344, (-2147483647) - 1, -1082130432}
Float32Vectors == UNION {[1..n -> Float32Words] : n \in 0..MaxVectorLen}

\* a vector is handed to float32_to_bytes
EncodeCall ==
  /\ call.op = "vector"
  /\ call' = [op |-> "float32_to_bytes", embedding |-> call.embedding,
              embedding_bytes |-> float32_to_bytes(call.embedding)]
  /\ UNCHANGED <<db_vars, inst_vars, build, sem, rebuilds, text_vars>>

\* its blob is handed to bytes_to_float32
DecodeCall ==
  /\ call.op = "float32_to_bytes"
  /\ call' = [op |-> "bytes_to_float32", embedding |-> call.embedding,
              embedding_bytes |-> call.embedding_bytes,
              decoded |-> bytes_to_float32(call.embedding_bytes)]
  /\ UNCHANGED <<db_vars, inst_vars, build, sem, rebuilds, text_vars>>

InitCodec ==
  /\ chunks = {}
  /\ embeddings = [conversation |-> <<>>, document |-> <<>>]
  /\ fts_tables = TRUE
  /\ nextId = 1
  /\ NeverBuilt
  /\ build = IdleBuild
  /\ sem = IdleSem
  /\ call \in {[op |-> "vector", embedding |-> v] : v \in Float32Vectors}
  /\ rebuilds = [r \in 1..NumRebuildRequests |-> IdleRequest]
  /\ job = IdleJob
  /\ split = IdleSplit
  /\ sources = NoSources
  /\ chunks_fts = EntriesOf(chunks, fts_tables)
  /\ fts_triggers = fts_tables

NextCodec ==
  \/ EncodeCall
  \/ DecodeCall

SpecCodec == InitCodec /\ [][NextCodec]_vars



\* ============================================================== split_text
\* A text is a sequence of characters; Python indexes it from 0.
Chars == {"a", " ", ".", "\n"}
Whitespace == {" ", "\n"}
break_chars == <<"\n", "!", "?", ";">>
Texts == UNION {[1..n -> Chars] : n \in 0..MaxTextLen}
\* (chunk_size, chunk_overlap) with 0 <= chunk_overlap < chunk_size
Configs == {c \in (1..MaxChunkSize) \X (0..MaxChunkSize) : c[2] < c[1]}

Max(a, b) == IF a >= b THEN a ELSE b
MinOf(S) == CHOOSE x \in S : \A y \in S : x <= y

\* a slice bound as Python reads it: a negative one counts from the end,
\* and both are clipped to 0..len
SliceIndex(n, i) ==
  IF i < 0 THEN Max(i + n, 0) ELSE Min(i, n)
\* text[a:b]
Slice(text, a, b) ==
  LET lo == SliceIndex(Len(text), a)
      hi == SliceIndex(Len(text), b)
  IN IF lo < hi THEN SubSeq(text, lo + 1, hi) ELSE <<>>
\* text.rfind(ch, a, b): the last index of ch within text[a:b], or -1
rfind(text, ch, a, b) ==
  LET lo == SliceIndex(Len(text), a)
      hi == SliceIndex(Len(text), b)
      at == {i \in lo..(hi - 1) : text[i + 1] = ch}
  IN IF at = {} THEN -1 ELSE MaxOf(at)
\* str.strip()
strip(t) ==
  LET keep == {i \in DOMAIN t : t[i] \notin Whitespace}
  IN IF keep = {} THEN <<>> ELSE SubSeq(t, MinOf(keep), MaxOf(keep))

\* lines 37-52: where the window that starts at `start` ends
WindowEnd(text, chunk_size, start) ==
  LET end == start + chunk_size
      search_start == Max(start + chunk_size - sentence_window, start)
      sentence_end == rfind(text, ".", search_start, end)
      found == {k \in DOMAIN break_chars :
                  rfind(text, break_chars[k], search_start, end) > start}
  IN IF ~(end < Len(text)) THEN end
     ELSE IF sentence_end > start THEN sentence_end + 1
     ELSE IF found = {} THEN end
     ELSE rfind(text, break_chars[MinOf(found)], search_start, end) + 1

\* lines 30-34: the call up to the loop; a text of at most chunk_size
\* characters is returned as it is.  `slices` records the slice each
\* iteration took, `prev_start` the start of the iteration before.
\* (variant that trims a short text before returning it)
SplitCalled_Trimmed(text, chunk_size, chunk_overlap) ==
  [pc |-> IF Len(text) <= chunk_size THEN "done" ELSE "loop",
   text |-> text, chunk_size |-> chunk_size,
   chunk_overlap |-> chunk_overlap, start |-> 0, prev_start |-> 0,
   chunks |-> IF Len(text) <= chunk_size THEN <<strip(text)>> ELSE <<>>,
   slices |-> <<>>, iterations |-> 0]
SplitCalled(text, chunk_size, chunk_overlap) ==
  IF Len(text) <= chunk_size
    THEN [pc |-> "done", text |-> text, chunk_size |-> chunk_size,
          chunk_overlap |-> chunk_overlap, start |-> 0, prev_start |-> 0,
          chunks |-> <<text>>, slices |-> <<>>, iterations |-> 0]
    ELSE [pc |-> "loop", text |-> text, chunk_size |-> chunk_size,
          chunk_overlap |-> chunk_overlap, start |-> 0, prev_start |-> 0,
          chunks |-> <<>>, slices |-> <<>>, iterations |-> 0]

\* lines 36-61: one iteration of the while loop (the loop is entered with
\* start < len(text), and left only through the break of line 61)
SplitIteration(s) ==
  LET end == WindowEnd(s.text, s.chunk_size, s.start)
      chunk == strip(Slice(s.text, s.start, end))
      start == end - s.chunk_overlap
  IN [s EXCEPT !.pc = IF start >= Len(s.text) THEN "done" ELSE "loop",
               !.chunks = IF chunk # <<>> THEN Append(@, chunk) ELSE @,
               !.slices = Append(@, [start |-> s.start, end |-> end,
                                     lo |-> SliceIndex(Len(s.text), s.start),
                                     hi |-> SliceIndex(Len(s.text), end),
                                     chunk |-> chunk]),
               !.prev_start = s.start,
               !.start = start,
               !.iterations = @ + 1]

SplitCall ==
  /\ split.pc = "called"
  /\ split' = SplitCalled(split.text, split.chunk_size, split.chunk_overlap)
  /\ UNCHANGED <<db_vars, inst_vars, build, sem, call, rebuilds, job, sources,
               chunks_fts, fts_triggers>>

SplitLoop ==
  /\ split.pc = "loop"
  /\ split.iterations < MaxIterations
  /\ split' = SplitIteration(split)
  /\ UNCHANGED <<db_vars, inst_vars, build, sem, call, rebuilds, job, sources,
               chunks_fts, fts_triggers>>

InitSplit ==
  /\ chunks = {}
  /\ embeddings = [conversation |-> <<>>, document |-> <<>>]
  /\ fts_tables = TRUE
  /\ nextId = 1
  /\ NeverBuilt
  /\ build = IdleBuild
  /\ sem = IdleSem
  /\ call = NoCall
  /\ rebuilds = [r \in 1..NumRebuildRequests |-> IdleRequest]
  /\ job = IdleJob
  /\ split \in {[pc |-> "called", text |-> text, chunk_size |-> c[1], chunk_overlap |-> c[2]] :
                  text \in Texts, c \in Configs}
  /\ sources = NoSources
  /\ chunks_fts = EntriesOf(chunks, fts_tables)
  /\ fts_triggers = fts_tables

NextSplit ==
  \/ SplitCall
  \/ SplitLoop

SpecSplit == InitSplit /\ [][NextSplit]_vars


\* ============================================= chunking the stored sources
\* split_text from call to return: the loop run to its end (a loop that has
\* not ended after MaxIterations iterations has not returned)
RECURSIVE SplitRun(_, _)
SplitRun(s, fuel) ==
  IF s.pc = "done" \/ fuel = 0 THEN s ELSE SplitRun(SplitIteration(s), fuel - 1)
split_text(text) ==
  SplitRun(SplitCalled(text, default_chunk_size, default_chunk_overlap), MaxIterations)

\* tables messages and documents.  sources.messages lists the messages in
\* conversation order (created_at ascending).
ConversationIds == {1}
DocumentIds == {1}
Roles == {"user", "assistant"}
SourceTexts == {<<"a">>, <<"a", " ", "a", ".">>}
MessageTables ==
  UNION {{[i \in 1..n |-> [id |-> i, conversation_id |-> c[i], role |-> r[i],
                           content |-> t[i]]] :
            c \in [1..n -> ConversationIds], r \in [1..n -> Roles],
            t \in [1..n -> SourceTexts]} : n \in 0..MaxMessages}
DocumentTables ==
  {<<>>} \cup {<<[id |-> d, content |-> t]>> : d \in DocumentIds, t \in SourceTexts}

\* the orders in which a SELECT without ORDER BY can return n rows
RowOrders(n) == {o \in [1..n -> 1..n] : \A i, j \in 1..n : o[i] = o[j] => i = j}

\* chunk_conversation, lines 83-100: the chunks of the fetched messages, in
\* the order fetched, numbered by one counter
RECURSIVE MessageChunks(_, _)
MessageChunks(messages, chunk_index) ==
  IF messages = <<>> THEN <<>>
  ELSE LET message == Head(messages)
           message_chunks == split_text(message.content).chunks
           rows == [i \in 1..Len(message_chunks) |->
                      [content |-> message_chunks[i],
                       chunk_index |-> chunk_index + (i - 1),
                       chunk_type |-> message.role,
                       message_id |-> message.id]]
       IN rows \o MessageChunks(Tail(messages), chunk_index + Len(message_chunks))

\* chunk_document, lines 130-140
DocumentChunks(document) ==
  LET content_chunks == split_text(document.content).chunks
  IN [i \in 1..Len(content_chunks) |->
        [content |-> content_chunks[i], chunk_index |-> i - 1]]

MessagesOf(conversation_id) ==
  SelectSeq(sources.messages, LAMBDA msg : msg.conversation_id = conversation_id)
ReturnsAll(texts) == \A i \in DOMAIN texts : split_text(texts[i]).pc = "done"

\* the rows a commit inserts, each under a new id
ChunkRows(conversation_id, new) ==
  [i \in 1..Len(new) |->
     [id |-> nextId + (i - 1), kind |-> "conversation",
      conversation_id |-> conversation_id, content |-> new[i].content,
      chunk_index |-> new[i].chunk_index, chunk_type |-> new[i].chunk_type,
      message_id |-> new[i].message_id]]
DocumentChunkRows(document_id, new) ==
  [i \in 1..Len(new) |->
     [id |-> nextId + (i - 1), kind |-> "document",
      document_id |-> document_id, content |-> new[i].content,
      chunk_index |-> new[i].chunk_index]]

\* delete(Chunk).where(Chunk.conversation_id == conversation_id)
ChunksOfConversation(conversation_id) ==
  {c \in chunks : c.kind = "conversation" /\ c.conversation_id = conversation_id}
\* delete(DocumentChunk).where(DocumentChunk.document_id == document_id)
ChunksOfDocument(document_id) ==
  {c \in chunks : c.kind = "document" /\ c.document_id = document_id}

\* chunk_conversation after `deleted` rows were removed; the messages come
\* back from the SELECT in some order
ChunkConversationAfter(op, conversation_id, deleted) ==
  LET messages == MessagesOf(conversation_id)
  IN \E order \in RowOrders(Len(messages)) :
       LET fetched == [i \in 1..Len(messages) |-> messages[order[i]]]
           created == ChunkRows(conversation_id, MessageChunks(fetched, 0))
       IN /\ ReturnsAll([i \in 1..Len(messages) |-> messages[i].content])
          /\ nextId + Len(created) <= MaxChunkIds + 1
          /\ chunks' = (chunks \ deleted) \cup Range(created)
          /\ chunks_fts' = AfterInsert(AfterDelete(chunks_fts, fts_triggers, deleted),
                                       fts_triggers, Range(created))
          /\ nextId' = nextId + Len(created)
          /\ call' = [op |-> op, source_id |-> conversation_id,
                      messages |-> messages, deleted |-> deleted,
                      created |-> created]
          /\ UNCHANGED <<job, split, sources, fts_triggers, embeddings, fts_tables,
                         inst_vars, build, sem, rebuilds>>

ChunkDocumentAfter(op, document_id, deleted) ==
  \E d \in DOMAIN sources.documents :
    LET document == sources.documents[d]
        created == DocumentChunkRows(document_id, DocumentChunks(document))
    IN /\ document.id = document_id
       /\ ReturnsAll(<<document.content>>)
       /\ nextId + Len(created) <= MaxChunkIds + 1
       /\ chunks' = (chunks \ deleted) \cup Range(created)
       /\ chunks_fts' = AfterInsert(AfterDelete(chunks_fts, fts_triggers, deleted),
                                    fts_triggers, Range(created))
       /\ nextId' = nextId + Len(created)
       /\ call' = [op |-> op, source_id |-> document_id,
                   document |-> document, deleted |-> deleted,
                   created |-> created]
       /\ UNCHANGED <<job, split, sources, fts_triggers, embeddings, fts_tables,
                      inst_vars, build, sem, rebuilds>>

ChunkConversation ==
  \E conversation_id \in ConversationIds :
    ChunkConversationAfter("chunk_conversation", conversation_id, {})

ChunkDocument ==
  \E document_id \in DocumentIds :
    ChunkDocumentAfter("chunk_document", document_id, {})

\* re_chunk_conversation: the conversation's chunk rows are deleted and the
\* deletion committed, then chunk_conversation runs
ReChunkConversation ==
  \E conversation_id \in ConversationIds :
    ChunkConversationAfter("re_chunk_conversation", conversation_id,
                           ChunksOfConversation(conversation_id))

ReChunkDocument ==
  \E document_id \in DocumentIds :
    ChunkDocumentAfter("re_chunk_document", document_id,
                       ChunksOfDocument(document_id))

InitChunk ==
  /\ chunks = {}
  /\ embeddings = [conversation |-> <<>>, document |-> <<>>]
  /\ fts_tables = TRUE
  /\ nextId = 1
  /\ NeverBuilt
  /\ build = IdleBuild
  /\ sem = IdleSem
  /\ call = NoCall
  /\ rebuilds = [r \in 1..NumRebuildRequests |-> IdleRequest]
  /\ job = IdleJob
  /\ split = IdleSplit
  /\ sources \in {[messages |-> ms, documents |-> ds] :
                    ms \in MessageTables, ds \in DocumentTables}
  /\ chunks_fts = NoEntries
  /\ fts_triggers = TRUE

NextChunk ==
  \/ ChunkConversation
  \/ ChunkDocument
  \/ ReChunkConversation
  \/ ReChunkDocument
  \/ StoreEmbeddingOf(JobVectors)

SpecChunk == InitChunk /\ [][NextChunk]_vars


\* ================================== the FTS5 tables and the chunk tables
\* create_fts5_tables (setup_hybrid_search.py): CREATE VIRTUAL TABLE IF NOT
\* EXISTS and CREATE TRIGGER IF NOT EXISTS; what exists is kept as it is, a
\* new FTS5 table starts without entries, the rows already stored are not
\* entered
CreateFts5Tables ==
  /\ ~(fts_tables /\ fts_triggers)
  /\ fts_tables' = TRUE
  /\ fts_triggers' = TRUE
  /\ call' = [op |-> "create_fts5_tables"]
  /\ UNCHANGED <<job, split, sources, chunks_fts, chunks, embeddings, nextId, inst_vars,
                 build, sem, rebuilds>>

\* setup_fts5 (setup_fts5.py): CREATE VIRTUAL TABLE without IF NOT EXISTS, so
\* it raises at its first statement when the tables exist; otherwise as above
SetupFts5 ==
  /\ ~fts_tables
  /\ fts_tables' = TRUE
  /\ fts_triggers' = TRUE
  /\ call' = [op |-> "setup_fts5"]
  /\ UNCHANGED <<job, split, sources, chunks_fts, chunks, embeddings, nextId, inst_vars,
                 build, sem, rebuilds>>

InitLexical ==
  /\ chunks = {}
  /\ embeddings = [conversation |-> <<>>, document |-> <<>>]
  /\ fts_tables = FALSE
  /\ nextId = 1
  /\ NeverBuilt
  /\ build = IdleBuild
  /\ sem = IdleSem
  /\ call = NoCall
  /\ rebuilds = [r \in 1..NumRebuildRequests |-> IdleRequest]
  /\ job = IdleJob
  /\ split = IdleSplit
  /\ sources \in {[messages |-> ms, documents |-> ds] :
                    ms \in {t \in MessageTables : Len(t) <= 1}, ds \in DocumentTables}
  /\ chunks_fts = NoEntries
  /\ fts_triggers = FALSE

NextLexical ==
  \/ CreateFts5Tables
  \/ SetupFts5
  \/ ChunkConversation
  \/ ChunkDocument
  \/ ReChunkConversation
  \/ ReChunkDocument
  \/ ResetDatabase

SpecLexical == InitLexical /\ [][NextLexical]_vars


\* --------------------------------------------- the keys of a result
\* Python values of a result dict: type is the Python type, fmt the form of
\* the value (a UUID column read through sqlite is a 32-digit hex str, str()
\* of a UUID object is the 36-character form)
Text(s) == [type |-> "str", fmt |-> "text", v |-> s]
Hex32(id) == [type |-> "str", fmt |-> "hex32", v |-> id]
Uuid36(id) == [type |-> "str", fmt |-> "uuid36", v |-> id]
Integer(n) == [type |-> "int", fmt |-> "int", v |-> n]
Null == [type |-> "NoneType", fmt |-> "none", v |-> 0]
\* str(x): a str is returned as it is, None gives "None"
str(x) ==
  IF x.type = "str" THEN x
  ELSE IF x.type = "NoneType" THEN Text("None")
  ELSE [type |-> "str", fmt |-> "decimal", v |-> x.v]
SameValue(x, y) == x.type = y.type /\ x.fmt = y.fmt /\ x.v = y.v

\* the conversation (document) a chunk belongs to, with its folder: the rows
\* the LEFT JOINs of keyword_search and the lookups of _get_chunk_details read
Titles == {"t"}
FolderNames == {"f"}
FileTypes == {"pdf"}
Catalogues ==
  [title : Titles, folder : {None} \cup {Some(f) : f \in FolderNames},
   file_type : FileTypes]

\* the row the SELECT of keyword_search returns for a chunk
\*   conversation: chunk_id, content, chunk_type, conversation_id,
\*                 chunk_index, conversation_title, folder_name, bm25_score
\*   document:     chunk_id, content, document_id, chunk_index,
\*                 document_title, folder_name, file_type, bm25_score
SelectedRow(c, source) ==
  LET folder_name == IF source.folder = None THEN Null ELSE Text(source.folder[1])
  IN IF c.kind = "conversation"
       THEN <<Hex32(c.id), Text(c.content), Text(c.chunk_type),
              Hex32(c.conversation_id), Integer(c.chunk_index), Text(source.title),
              folder_name, Integer(0)>>
       ELSE <<Hex32(c.id), Text(c.content), Hex32(c.document_id),
              Integer(c.chunk_index), Text(source.title), folder_name,
              Text(source.file_type), Integer(0)>>

\* lines 135-156: the result dict built from a row
KeywordResult(row, search_type) ==
  IF search_type = "conversation"
    THEN [chunk_id |-> str(row[1]), content |-> row[2],
          conversation_title |-> row[3], folder_name |-> row[4],
          chunk_type |-> row[5], conversation_id |-> str(row[6]),
          chunk_index |-> row[7]]
    ELSE [chunk_id |-> str(row[1]), content |-> row[2],
          document_title |-> row[3], folder_name |-> row[4],
          file_type |-> row[5], document_id |-> str(row[6]),
          chunk_index |-> row[7]]

\* _get_chunk_details, lines 316-324 and 345-353: the dict of a chunk found
ChunkDetails(c, source, search_type) ==
  LET folder_name == IF source.folder = None THEN Text("Root")
                     ELSE Text(source.folder[1])
  IN IF search_type = "conversation"
       THEN [chunk_id |-> Uuid36(c.id), content |-> Text(c.content),
             conversation_id |-> Uuid36(c.conversation_id),
             chunk_index |-> Integer(c.chunk_index), chunk_type |-> Text(c.chunk_type),
             conversation_title |-> Text(source.title), folder_name |-> folder_name]
       ELSE [chunk_id |-> Uuid36(c.id), content |-> Text(c.content),
             document_id |-> Uuid36(c.document_id),
             chunk_index |-> Integer(c.chunk_index),
             document_title |-> Text(source.title), folder_name |-> folder_name,
             file_type |-> Text(source.file_type)]

\* keyword_search with a query every indexed chunk matches and a limit above
\* their number, next to what _get_chunk_details (semantic_search) reports
\* for the same chunks
KeywordSearchRows ==
  \E search_type \in Kinds, source \in Catalogues :
    LET rows == TableRows(IndexedChunks, search_type)
    IN /\ fts_tables
       /\ rows # <<>>
       /\ call' = [op |-> "keyword_search_rows", search_type |-> search_type,
                   source |-> source,
                   results |-> [i \in 1..Len(rows) |->
                                  KeywordResult(SelectedRow(rows[i], source),
                                                search_type)],
                   details |-> [i \in 1..Len(rows) |->
                                  ChunkDetails(rows[i], source, search_type)]]
       /\ UNCHANGED <<text_vars, db_vars, inst_vars, build, sem, rebuilds>>

NextDetails ==
  \/ CreateFts5Tables
  \/ ChunkConversation
  \/ ChunkDocument
  \/ KeywordSearchRows

SpecDetails == InitLexical /\ [][NextDetails]_vars

\* ====================================================== the startup sequence
\* startup.py runs initialize_database and then setup_hybrid_search; the
\* step of the sequence that ran last is call.op.
\* what a step can raise: a subclass of Exception.  sys.exit raises
\* SystemExit, which derives from BaseException and not from Exception.
ExceptionClasses == {"Exception", "SystemExit"}
\* does `except Exception` catch it
except_Exception(exc) == exc = "Exception"

\* setup_hybrid_search, lines 317-321: an Exception of a step is caught,
\* logged, and sys.exit(1) is called; the result is what the call raises
setup_hybrid_search_raises(exc) ==
  IF except_Exception(exc) THEN "SystemExit" ELSE exc

\* run_hybrid_search_setup, lines 64-72, when setup_hybrid_search raised exc:
\* `except Exception` returns False, anything else goes on to the caller
run_hybrid_search_setup(exc) ==
  IF except_Exception(exc) THEN [returns |-> Some(FALSE), raises |-> None]
  ELSE [returns |-> None, raises |-> Some(exc)]

\* startup_sequence, lines 91-104
\*   db_success = FALSE: sys.exit(1)
\*   the setup returned (True or False): the sequence runs to its end
\*   the setup raised: nothing catches it, asyncio.run ends the process
StartupEnds(db_success, failed_step, outcome) ==
  [op |-> "startup_sequence", db_success |-> db_success,
   failed_step |-> failed_step,
   completed |-> db_success /\ outcome.raises = None,
   exit_code |-> IF db_success /\ outcome.raises = None THEN 0 ELSE 1]

SetupSteps ==
  <<"create_fts5_tables", "chunk_existing_conversations",
    "chunk_existing_documents", "generate_embeddings", "build_faiss_index",
    "test_hybrid_search">>
\* the step after which step s runs
StepBefore(s) ==
  IF s = 1 THEN "initialize_database" ELSE SetupSteps[s - 1]
AtStep(s) == call.op = StepBefore(s)

\* a step of the setup raises an Exception
StepRaises ==
  \E s \in DOMAIN SetupSteps :
    /\ AtStep(s)
    /\ s = 4 => job.pc = "idle"
    /\ call' = StartupEnds(TRUE, Some(SetupSteps[s]),
                           run_hybrid_search_setup(
                             setup_hybrid_search_raises("Exception")))
    /\ UNCHANGED <<text_vars, db_vars, inst_vars, build, sem, rebuilds>>

\* initialize_database, lines 25-58: create_all leaves existing tables and
\* rows alone; any failure is caught and False returned, and then
\* startup_sequence exits
InitializeDatabase ==
  /\ call.op \in {"none", "startup_sequence"}
  /\ \E db_success \in BOOLEAN :
       call' = IF db_success THEN [op |-> "initialize_database"]
               ELSE StartupEnds(FALSE, None, [returns |-> None, raises |-> None])
  /\ job' = IdleJob
  /\ UNCHANGED <<split, sources, chunks_fts, fts_triggers, db_vars, inst_vars,
                 build, sem, rebuilds>>

\* step 1, create_fts5_tables (lines 27-105): CREATE ... IF NOT EXISTS
SetupCreateFts5Tables ==
  /\ AtStep(1)
  /\ fts_tables' = TRUE
  /\ fts_triggers' = TRUE
  /\ call' = [op |-> SetupSteps[1]]
  /\ UNCHANGED <<job, split, sources, chunks_fts, chunks, embeddings, nextId,
                 inst_vars, build, sem, rebuilds>>

\* step 2, chunk_existing_conversations (lines 108-130): chunk_conversation
\* for every active conversation; an Exception of one conversation is logged
\* and the loop goes on
SetupChunkConversations ==
  /\ AtStep(2)
  /\ \/ \E conversation_id \in ConversationIds :
          ChunkConversationAfter(SetupSteps[2], conversation_id, {})
     \/ /\ call' = [op |-> SetupSteps[2], created |-> <<>>]
        /\ UNCHANGED <<text_vars, db_vars, inst_vars, build, sem, rebuilds>>

\* step 3, chunk_existing_documents (lines 133-155)
SetupChunkDocuments ==
  /\ AtStep(3)
  /\ \/ \E document_id \in DocumentIds :
          ChunkDocumentAfter(SetupSteps[3], document_id, {})
     \/ /\ call' = [op |-> SetupSteps[3], created |-> <<>>]
        /\ UNCHANGED <<text_vars, db_vars, inst_vars, build, sem, rebuilds>>

\* step 4, generate_embeddings, begins (the job goes on with JobItem,
\* JobSelectDocs and JobReturn)
SetupGenerateEmbeddings ==
  /\ AtStep(4)
  /\ job.pc = "idle"
  /\ JobSelectChunks

\* generate_embeddings has returned
SetupEmbeddingsDone ==
  /\ AtStep(4)
  /\ job.pc = "done"
  /\ call' = [op |-> SetupSteps[4]]
  /\ UNCHANGED <<text_vars, db_vars, inst_vars, build, sem, rebuilds>>

\* step 5, build_faiss_index (lines 229-237): the index is built on a
\* HybridSearchService made for this call and dropped with it
SetupBuildFaissIndex ==
  /\ AtStep(5)
  /\ call' = [op |-> SetupSteps[5]]
  /\ UNCHANGED <<text_vars, db_vars, inst_vars, build, sem, rebuilds>>

\* step 6, test_hybrid_search (lines 240-274), queries on another new
\* service; setup_hybrid_search returns, run_hybrid_search_setup returns
\* True and startup_sequence runs to its end
SetupTestHybridSearch ==
  /\ AtStep(6)
  /\ call' = StartupEnds(TRUE, None, [returns |-> Some(TRUE), raises |-> None])
  /\ UNCHANGED <<text_vars, db_vars, inst_vars, build, sem, rebuilds>>

NextStartup ==
  \/ InitializeDatabase
  \/ SetupCreateFts5Tables
  \/ SetupChunkConversations
  \/ SetupChunkDocuments
  \/ SetupGenerateEmbeddings
  \/ JobItem
  \/ JobSelectDocs
  \/ JobReturn
  \/ SetupEmbeddingsDone
  \/ SetupBuildFaissIndex
  \/ SetupTestHybridSearch
  \/ StepRaises

\* a new database whose messages and documents are one chunk long
InitStartup ==
  /\ InitLexical
  /\ \A i \in DOMAIN sources.messages : Len(sources.messages[i].content) = 1
  /\ \A i \in DOMAIN sources.documents : Len(sources.documents[i].content) = 1

SpecStartup == InitStartup /\ [][NextStartup]_vars

\* ================================================== search_conversations
\* routes/marketing.py 636-691, a request with a query q and a search_method
\* that is not "basic"
SearchMethods == {"hybrid", "keyword", "semantic"}

\* the service made for the request (lines 639-640): nothing built yet
NewService == [faiss_index |-> None, chunk_id_to_index |-> <<>>,
               index_to_chunk_id |-> <<>>]

\* what the service call of the request returns (lines 642-659): each of
\* keyword_search, semantic_search and hybrid_search catches its own
\* failures and returns a list
ServiceResults(search_method, limit, provided, order) ==
  LET bm25_results == keyword_search(IndexedChunks, fts_tables, limit * 2, "conversation")
      semantic_results ==
        SemanticSearchOn(NewService, limit * 2, "conversation", provided).results
  IN IF search_method = "keyword" THEN bm25_results
     ELSE IF search_method = "semantic" THEN semantic_results
     ELSE Fuse(keyword_search(IndexedChunks, fts_tables, limit * 4, "conversation"),
               SemanticSearchOn(NewService, limit * 4, "conversation", provided).results,
               limit * 2, bm25_weight_default, cosine_weight_default, order)

\* did the search of the request fail: the FTS5 query raised, the embedding
\* of the query could not be made; for "hybrid", both
SearchFailed(search_method, provided) ==
  LET keyword_failed == QueryError(fts_tables, "conversation") # None
      semantic_failed == provided = None
  IN IF search_method = "keyword" THEN keyword_failed
     ELSE IF search_method = "semantic" THEN semantic_failed
     ELSE keyword_failed /\ semantic_failed

\* lines 664-680: what the handler does with the outcome of the try block
\*   "content": the conversations are filtered by the ids found
\*   "empty":   `return []`
\*   "basic":   the except clause adds the substring conditions
SearchPath(raised, search_results) ==
  IF raised THEN "basic"
  ELSE IF search_results # <<>> THEN "content"
  ELSE "empty"

\* api_key_set: OPENAI_API_KEY is set; without it EmbeddingService() raises
\* (embedding_service.py 20-22) inside the try block of the handler
SearchConversations ==
  /\ call = NoCall
  /\ \E search_method \in SearchMethods, limit \in Limits, provided \in Providers,
        api_key_set \in BOOLEAN :
       LET all_chunk_ids ==
             IF search_method = "hybrid"
               THEN ResultIds(keyword_search(IndexedChunks, fts_tables, limit * 4,
                                             "conversation"))
                    \cup ResultIds(SemanticSearchOn(NewService, limit * 4,
                                                    "conversation", provided).results)
               ELSE {}
       IN \E order \in Orderings(all_chunk_ids) :
            LET search_results ==
                  IF api_key_set
                    THEN ServiceResults(search_method, limit, provided, order)
                    ELSE <<>>
            IN call' = [op |-> "search_conversations",
                        search_method |-> search_method, limit |-> limit,
                        provided |-> provided, api_key_set |-> api_key_set,
                        search_failed |-> api_key_set /\ SearchFailed(search_method, provided),
                        search_results |-> search_results,
                        path |-> SearchPath(~api_key_set, search_results)]
  /\ UNCHANGED <<text_vars, db_vars, inst_vars, build, sem, rebuilds>>

NextRoute ==
  \/ SearchConversations

SpecRoute == InitHybrid /\ [][NextRoute]_vars

\* ============================================== a build that fails partway
\* lines 42-48 raise when the embeddings read are not all of the index
\* dimension: np.array(..., dtype=np.float32) on rows of different lengths
\* (ValueError), faiss_index.add on rows of another common length
\* (AssertionError)
BuildRaises(all_embeddings) ==
  \E i \in DOMAIN all_embeddings : Len(all_embeddings[i].vec) # embedding_dimension

\* lines 32-54 with the failure: line 39 has already put a new, empty index
\* in self.faiss_index when line 42 or 48 raises, and lines 51-52 are not
\* reached
BuildAttemptOn(inst, all_embeddings) ==
  IF all_embeddings = <<>> THEN [inst |-> inst, raised |-> FALSE]
  ELSE IF BuildRaises(all_embeddings)
    THEN [inst |-> [inst EXCEPT !.faiss_index = Some(<<>>)], raised |-> TRUE]
  ELSE [inst |-> BuildOn(inst, all_embeddings), raised |-> FALSE]

\* build_faiss_index is called on the instance
BuildFaissIndexAttempt ==
  LET previous == [faiss_index |-> faiss_index,
                   chunk_id_to_index |-> chunk_id_to_index,
                   index_to_chunk_id |-> index_to_chunk_id]
      attempt == BuildAttemptOn(previous, StoredEmbeddings)
  IN /\ faiss_index' = attempt.inst.faiss_index
     /\ chunk_id_to_index' = attempt.inst.chunk_id_to_index
     /\ index_to_chunk_id' = attempt.inst.index_to_chunk_id
     /\ last_build' = IF attempt.raised THEN last_build ELSE Found(StoredEmbeddings)
     /\ call' = [op |-> "build_faiss_index", all_embeddings |-> StoredEmbeddings,
                 raised |-> attempt.raised, previous |-> previous]
     /\ UNCHANGED <<text_vars, db_vars, build, sem, rebuilds>>

NextBuild ==
  \/ ChunkSource({1}, MaxChunks)
  \/ StoreEmbeddingOf(AnyEmbeddings)
  \/ BuildFaissIndexAttempt

SpecBuild == Init /\ [][NextBuild]_vars

\* ================================================================ claims
\* what the claims call "the chunk" of a result row, and how well it matches
ChunkOfRow(row) == ChunkOfStr(row.chunk_id)
RelOfRow(row) == RowOf(chunks, ChunkOfRow(row)).rel
IdsInOrder(results) == [i \in DOMAIN results |-> ChunkOfRow(results[i])]

\* C1: keyword_search returns at most `limit` rows, most relevant first, with
\* a higher bm25_score meaning a more relevant chunk, and the matching chunks
\* it leaves out are the least relevant ones.
C1_KeywordSearchBestFirst ==
  (call.op = "keyword_search" /\ fts_tables) =>
    LET res == call.results
        returned == {ChunkOfRow(res[i]) : i \in DOMAIN res}
        matched == {c \in chunks : c.kind = call.search_type /\ c.rel > 0}
    IN /\ Len(res) <= call.limit
       /\ \A i, j \in DOMAIN res : RelOfRow(res[i]) > RelOfRow(res[j]) => i < j
       /\ \A i, j \in DOMAIN res :
            res[i].bm25_score > res[j].bm25_score => RelOfRow(res[i]) > RelOfRow(res[j])
       /\ \A c \in matched : c.id \notin returned =>
            \A i \in DOMAIN res : c.rel <= RelOfRow(res[i])

\* the score a chunk got in a result list, 0 when it is not in the list
ScoreOfChunk(results, chunk, field) ==
  LET at == {i \in DOMAIN results : ChunkOfRow(results[i]) = chunk}
  IN IF at = {} THEN 0 ELSE results[MaxOf(at)][field]

\* C2: every row of hybrid_search has hybrid_score = bm25_weight * bm25_score
\* + cosine_weight * cosine_score, bm25_score being the chunk's score in the
\* lexical list and cosine_score its score in the semantic list, 0 for a list
\* the chunk is not in.
C2_HybridScoreOfBothLists ==
  call.op = "hybrid_search" =>
    \A i \in DOMAIN call.results :
      LET row == call.results[i]
      IN /\ row.hybrid_score = call.bm25_weight * row.bm25_score
                               + call.cosine_weight * row.cosine_score
         /\ row.bm25_score = ScoreOfChunk(call.bm25_results, ChunkOfRow(row), "bm25_score")
         /\ row.cosine_score =
              ScoreOfChunk(call.semantic_results, ChunkOfRow(row), "cosine_score")

C4_DegradesToKeywordSearch ==
  (call.op = "hybrid_search" /\ call.semantic_results = <<>>) =>
    /\ IdsInOrder(call.results)
         = IdsInOrder(keyword_search(IndexedChunks, fts_tables, call.limit, call.search_type))
    /\ \A i \in DOMAIN call.results : call.results[i].cosine_score = 0

\* C5: a search request fails only when the lexical and the vector signal are
\* both unusable, and then answers with an explicit error; with one signal
\* unusable it succeeds with the results of the other.
LexicalUnusable == ~fts_tables
VectorUnusable == ~call.index_available \/ call.provided = None
C5_FailsOnlyWhenBothUnusable ==
  call.op = "hybrid_search" =>
    /\ (LexicalUnusable /\ VectorUnusable) <=> call.status # 200
    /\ (LexicalUnusable /\ ~VectorUnusable) =>
         /\ ResultIds(call.results) \subseteq ResultIds(call.semantic_results)
         /\ Len(call.results)
              = Min(call.limit, Cardinality(ResultIds(call.semantic_results)))
    /\ (~LexicalUnusable /\ VectorUnusable) =>
         /\ ResultIds(call.results) \subseteq ResultIds(call.bm25_results)
         /\ Len(call.results)
              = Min(call.limit, Cardinality(ResultIds(call.bm25_results)))


\* C6: a vector query returns an empty list, without raising, when no build
\* has been called on the instance or the latest build call (the one
\* semantic_search makes itself when there is no index included) found zero
\* embeddings, also when an earlier build had found some.
C6_EmptyWithoutEmbeddings ==
  (call.op = "semantic_search" /\ call.last_build \in {"never", "zero"}) =>
    call.results = <<>>

\* C6 witness: the latest build found nothing, the index of an earlier build
\* is still there and was searched, and the query returned nothing
C6_Witness ==
  /\ call.op = "semantic_search"
  /\ call.last_build = "zero"
  /\ call.hits # <<>>
  /\ call.results = <<>>

\* C7: after any sequence of builds chunk_id_to_index and index_to_chunk_id
\* are inverse bijections, as large as the index, and position i is the
\* chunk_id of the i-th embedding added by the build.
C7_MapsInverseBijections ==
  /\ faiss_index = None => (chunk_id_to_index = <<>> /\ index_to_chunk_id = <<>>)
  /\ faiss_index # None =>
       LET n == Len(faiss_index[1])
       IN /\ DOMAIN index_to_chunk_id = 0..(n - 1)
          /\ Cardinality(DOMAIN chunk_id_to_index) = n
          /\ \A i \in DOMAIN index_to_chunk_id :
               /\ index_to_chunk_id[i] \in DOMAIN chunk_id_to_index
               /\ chunk_id_to_index[index_to_chunk_id[i]] = i
          /\ \A c \in DOMAIN chunk_id_to_index :
               /\ chunk_id_to_index[c] \in DOMAIN index_to_chunk_id
               /\ index_to_chunk_id[chunk_id_to_index[c]] = c
  /\ (call.op = "build_faiss_index" /\ call.all_embeddings # <<>>) =>
       \A i \in DOMAIN call.all_embeddings :
         index_to_chunk_id[i - 1] = call.all_embeddings[i].chunk_id

\* what semantic_search answers on an instance holding index fi and map i2c
AnswerOf(fi, i2c, query_embedding, limit, search_type) ==
  IF fi = None THEN <<>>
  ELSE SemanticLoop(FaissSearch(fi[1], normalize_L2(query_embedding), limit),
                    i2c, chunks, search_type, 1, <<>>)

\* C10: a build that follows a build, with the embedding store unchanged in
\* between, leaves an index that answers every query as before: the same
\* chunk_ids, in the same order, with the same scores.
C10_RebuildIdempotent ==
  [][(/\ BuildFaissIndex
      /\ call.op = "build_faiss_index"
      /\ call.all_embeddings = StoredEmbeddings)
     => \A query_embedding \in Vectors, limit \in 1..(2 * MaxLimit), search_type \in Kinds :
          AnswerOf(faiss_index', index_to_chunk_id', query_embedding, limit, search_type)
            = AnswerOf(faiss_index, index_to_chunk_id, query_embedding, limit, search_type)]_vars

\* C10 witness: a second build in a row over the same two embeddings
C10_Witness ==
  /\ call.op = "build_faiss_index"
  /\ call.again
  /\ Len(call.all_embeddings) >= 2
  /\ faiss_index # None
  /\ \E c \in chunks : c.id = call.all_embeddings[1].chunk_id

\* C8: at most one rebuild is in flight at any time, and a rebuild requested
\* while another one is running is answered 409 (conflict).
C8_OneRebuildInFlight ==
  /\ Cardinality({r \in DOMAIN rebuilds : InFlight(r)}) <= 1
  /\ \A r \in DOMAIN rebuilds :
       (rebuilds[r].pc = "done" /\ rebuilds[r].during) => rebuilds[r].status = 409

\* C9: under every interleaving of build_faiss_index and semantic_search on
\* one instance, every row a query returns carries the chunk_id that the
\* position map in place when the index was searched gives to the row's
\* position (the score and the chunk_id come from one build).
C9_PairsOfOneBuild ==
  sem.pc = "done" =>
    \A k \in DOMAIN sem.results :
      /\ sem.results[k].pos \in DOMAIN sem.index_to_chunk_id_at_search
      /\ sem.results[k].chunk_id
           = StrOfUuid(sem.index_to_chunk_id_at_search[sem.results[k].pos])

\* C11: the index a rebuild request produced is the one every later semantic
\* search request of the process queries, until the next rebuild replaces it.
C11_SearchQueriesRebuiltIndex ==
  (call.op = "semantic_search_request" /\ call.rebuilt # None) =>
    call.index = call.rebuilt[1]

\* C12: every stored embedding record holds a vector of the declared
\* dimension: its blob is embedding_dimension * 4 bytes long, and decoding it
\* gives embedding_dimension elements.
C12_StoredVectorHasDeclaredDimension ==
  \A kind \in Kinds : \A i \in DOMAIN embeddings[kind] :
    LET row == embeddings[kind][i]
    IN /\ Len(row.embedding) = 4 * row.embedding_dimension
       /\ Len(bytes_to_float32(row.embedding)) = row.embedding_dimension

\* C13: after any sequence of store calls and batch job runs every chunk has
\* at most one embedding record.
C13_OneEmbeddingPerChunk ==
  \A kind \in Kinds : \A i, k \in DOMAIN embeddings[kind] :
    embeddings[kind][i].chunk_id = embeddings[kind][k].chunk_id => i = k

\* C14: the batch job returns without raising whatever items fail, and every
\* selected chunk whose embedding call and store succeed has an embedding
\* record when the job ends.
C14_JobIsolatesItemErrors ==
  job.pc = "done" =>
    /\ ~job.raised
    /\ \A n \in DOMAIN job.selected :
         job.selected[n].fate = "ok" =>
           \E i \in DOMAIN embeddings[job.selected[n].kind] :
             embeddings[job.selected[n].kind][i].chunk_id = job.selected[n].chunk_id

\* C14 witness: a job that has returned, in whose batch a failing item came
\* before one that succeeded
C14_Witness ==
  /\ job.pc = "done"
  /\ \E n, k \in DOMAIN job.selected :
       /\ n < k
       /\ job.selected[n].kind = job.selected[k].kind
       /\ job.selected[n].fate # "ok"
       /\ job.selected[k].fate = "ok"

\* C15: for every float32 vector v, bytes_to_float32(float32_to_bytes(v)) is
\* v element for element (the same bit patterns), and the blob is 4 * len(v)
\* bytes long.
C15_SerializationRoundTrips ==
  /\ call.op \in {"float32_to_bytes", "bytes_to_float32"} =>
       Len(call.embedding_bytes) = 4 * Len(call.embedding)
  /\ call.op = "bytes_to_float32" => call.decoded = call.embedding

\* C15 witness: a decoded vector of several elements whose bytes differ
C15_Witness ==
  /\ call.op = "bytes_to_float32"
  /\ Len(call.embedding) >= 2
  /\ call.embedding[1] = 1065353216
  /\ call.embedding[2] = 2143289344
  /\ call.decoded[1] = 1065353216

\* C16: after re_chunk_conversation or re_chunk_document of a source has
\* completed, nothing of the source's previous chunking remains: none of its
\* old chunks, no embedding record of one of them, no lexical entry for them.
C16_NothingOfOldChunkingRemains ==
  call.op \in {"re_chunk_conversation", "re_chunk_document"} =>
    LET kind == IF call.op = "re_chunk_conversation" THEN "conversation" ELSE "document"
        old == {c.id : c \in call.deleted}
    IN /\ \A c \in chunks : c.id \notin old
       /\ \A i \in DOMAIN embeddings[kind] : embeddings[kind][i].chunk_id \notin old
       /\ chunks_fts[kind] \cap old = {}

\* C17: the chunks one chunk_conversation call creates carry chunk_index
\* 0, 1, 2, ... across the whole conversation in message order, each with the
\* role of the message it was cut from; chunk_document numbers the chunks of
\* a document from 0 in text order.
C17_ChunkIndexInMessageOrder ==
  /\ call.op = "chunk_conversation" =>
       LET at(k) == CHOOSE p \in DOMAIN call.messages :
                      call.messages[p].id = call.created[k].message_id
       IN /\ \A k \in DOMAIN call.created :
               /\ call.created[k].chunk_index = k - 1
               /\ call.created[k].chunk_type = call.messages[at(k)].role
          /\ \A k, l \in DOMAIN call.created : k < l => at(k) <= at(l)
  /\ call.op = "chunk_document" =>
       /\ \A k \in DOMAIN call.created : call.created[k].chunk_index = k - 1
       /\ [k \in DOMAIN call.created |-> call.created[k].content]
            = split_text(call.document.content).chunks

\* C18: split_text terminates when 0 <= chunk_overlap < chunk_size, because
\* on each iteration the window start advances and stays non-negative.
C18_StartAdvances ==
  (split.pc \in {"loop", "done"} /\ split.iterations > 0) =>
    /\ split.start > split.prev_start
    /\ split.start >= 0

\* C19: for a text longer than chunk_size the windows split_text cuts are
\* taken in increasing position order, and once it returns every
\* non-whitespace character of the text lies inside at least one window and
\* the chunks are the windows in that order, each without the whitespace at
\* its two ends (a window of whitespace only gives no chunk).
C19_EveryCharacterInAWindow ==
  Len(split.text) > split.chunk_size =>
    /\ split.pc \in {"loop", "done"} =>
         \A k \in 1..(Len(split.slices) - 1) :
           split.slices[k].start < split.slices[k + 1].start
    /\ split.pc = "done" =>
         /\ \A p \in 0..(Len(split.text) - 1) :
              split.text[p + 1] \notin Whitespace =>
                \E k \in DOMAIN split.slices :
                  split.slices[k].lo <= p /\ p < split.slices[k].hi
         /\ \A k \in DOMAIN split.slices :
              LET w == split.slices[k]
                  inside == {p \in w.lo..(w.hi - 1) : split.text[p + 1] \notin Whitespace}
              IN IF inside = {} THEN w.chunk = <<>>
                 ELSE w.chunk = SubSeq(split.text, MinOf(inside) + 1, MaxOf(inside) + 1)
         /\ split.chunks =
              [n \in 1..Len(SelectSeq(split.slices, LAMBDA w : w.chunk # <<>>)) |->
                 SelectSeq(split.slices, LAMBDA w : w.chunk # <<>>)[n].chunk]

\* C20: every string split_text returns is non-empty and neither starts nor
\* ends with whitespace.
C20_ChunksTrimmedNonEmpty ==
  split.pc = "done" =>
    \A k \in DOMAIN split.chunks :
      /\ split.chunks[k] # <<>>
      /\ split.chunks[k][1] \notin Whitespace
      /\ split.chunks[k][Len(split.chunks[k])] \notin Whitespace

\* C21: split_text returns the one-element list [text], the text unchanged,
\* whenever len(text) <= chunk_size (and it does so without entering the loop).
C21_ShortTextReturnedUnchanged ==
  (split.pc \in {"loop", "done"} /\ Len(split.text) <= split.chunk_size) =>
    /\ split.pc = "done"
    /\ split.iterations = 0
    /\ split.chunks = <<split.text>>

\* C21 witness: a returned call on a short text that begins and ends with
\* whitespace
C21_Witness ==
  /\ split.pc = "done"
  /\ Len(split.text) = split.chunk_size
  /\ Len(split.text) >= 2
  /\ split.text[1] \in Whitespace
  /\ split.text[Len(split.text)] \in Whitespace
  /\ split.chunks = <<split.text>>

\* C22: a window [start, start + chunk_size) that does not reach the end of
\* the text is cut just after the last '.' in its final 100 characters; if it
\* holds none, just after the last occurrence of the first of newline, '!',
\* '?', ';' that occurs in those characters; if none occurs, at
\* start + chunk_size.
C22_CutAtLastBreakInWindow ==
  split.pc \in {"loop", "done"} =>
    \A k \in DOMAIN split.slices :
      LET w == split.slices[k]
          raw == w.start + split.chunk_size
          final == {p \in Max(raw - sentence_window, w.start)..(raw - 1) :
                      p >= 0 /\ p < Len(split.text)}
          at(ch) == {p \in final : split.text[p + 1] = ch}
          occurring == {b \in DOMAIN break_chars : at(break_chars[b]) # {}}
      IN raw < Len(split.text) =>
           w.end = IF at(".") # {} THEN MaxOf(at(".")) + 1
                   ELSE IF occurring # {}
                          THEN MaxOf(at(break_chars[MinOf(occurring)])) + 1
                   ELSE raw

\* C23: once the FTS5 tables exist, the chunks that have an entry in them are
\* exactly the chunks stored, in every reachable state.
C23_LexicalIndexInSync ==
  fts_tables => chunks_fts = EntriesOf(chunks, TRUE)

\* C24: keyword_search never raises when the FTS5 table of the requested
\* search_type does not exist; it returns an empty list.
C24_EmptyWithoutFtsTables ==
  (call.op = "keyword_search" /\ ~fts_tables) =>
    /\ ~call.raised
    /\ call.results = <<>>

\* C24 witness: a keyword search without FTS5 tables over a table that holds
\* a chunk of the requested kind matching the query
C24_Witness ==
  /\ call.op = "keyword_search"
  /\ ~fts_tables
  /\ \E c \in chunks : c.kind = call.search_type /\ c.rel > 0
  /\ call.results = <<>>

\* C25: each keyword_search result reports, under the keys conversation_id
\* (document_id), conversation_title (document_title), folder_name,
\* chunk_type (file_type) and chunk_index, the values semantic_search
\* reports for the same chunk.
SourceKeys(search_type) ==
  IF search_type = "conversation"
    THEN {"conversation_id", "conversation_title", "folder_name", "chunk_type",
          "chunk_index"}
    ELSE {"document_id", "document_title", "folder_name", "file_type",
          "chunk_index"}
C25_KeysHoldTheirColumns ==
  call.op = "keyword_search_rows" =>
    \A i \in DOMAIN call.results : \A k \in SourceKeys(call.search_type) :
      SameValue(call.results[i][k], call.details[i][k])

\* C26: a failure of any step of the hybrid search setup does not stop the
\* startup sequence; startup exits only when the database initialisation
\* failed.
C26_SetupFailureIsNotCritical ==
  call.op = "startup_sequence" =>
    /\ (call.db_success /\ call.failed_step # None) => call.completed
    /\ ~call.completed => ~call.db_success

\* C27: when the hybrid, keyword or semantic search of a search_conversations
\* request fails, the request falls back to the basic substring search.
C27_FailedSearchFallsBack ==
  (call.op = "search_conversations" /\ call.search_failed) => call.path = "basic"

\* C28: no conversation has two stored chunks with the same chunk_index,
\* whatever calls of chunk_conversation, re_chunk_conversation and setup runs
\* came before.
C28_OneChunkPerIndex ==
  \A c1, c2 \in chunks :
    (/\ c1.kind = "conversation"
     /\ c2.kind = "conversation"
     /\ c1.conversation_id = c2.conversation_id
     /\ c1.chunk_index = c2.chunk_index) => c1 = c2

\* C29: semantic_search for kind T returns `limit` results whenever at least
\* `limit` chunks of kind T have an embedding in the index; the chunks of the
\* other kind in the index do not take their places.
IndexedOfKind(search_type) ==
  {index_to_chunk_id[p] : p \in DOMAIN index_to_chunk_id} \cap TableIds(chunks, search_type)
C29_PooledIndexKeepsLimit ==
  (/\ call.op = "semantic_search"
   /\ call.index_available
   /\ call.provided # None
   /\ Cardinality(IndexedOfKind(call.search_type)) >= call.limit)
    => Len(call.results) = call.limit

\* C30: a build_faiss_index call that fails leaves the index and both
\* position maps as the last successful build made them.
C30_FailedBuildChangesNothing ==
  (call.op = "build_faiss_index" /\ call.raised) =>
    /\ faiss_index = call.previous.faiss_index
    /\ chunk_id_to_index = call.previous.chunk_id_to_index
    /\ index_to_chunk_id = call.previous.index_to_chunk_id

====
